---- MODULE Spec2Model ----
(***************************************************************************)
(* A model of src/src/fastforward.c (the "timescale" feature of sst):      *)
(* the sst_fastforward command, the Host_AccumulateTime hook callback, the *)
(* float-global extractor, the instruction-stream scans that locate        *)
(* Host_AccumulateTime, and the PREINIT / INIT / END lifecycle.            *)
(*                                                                         *)
(* Host memory is a 32-bit little-endian byte space.  `img` is the host    *)
(* image as loaded (regions of bytes), `patch` the bytes written over it   *)
(* by the hook engine.  A 32-bit value (a pointer, a displacement) is held *)
(* as its two's complement reading, -2^31 .. 2^31 - 1, which is the range  *)
(* of TLC's integers; the images keep code and data in the lower half of   *)
(* the address space, so no address computation of the model wraps.        *)
(* Times (float in the source) are modelled as integers of one time unit:  *)
(* the model keeps the comparisons, the additions and the assignments,     *)
(* not the rounding of IEEE floats.                                        *)
(***************************************************************************)
EXTENDS Integers, Sequences, FiniteSets, TLC

(***************************************************************************)
(* Bounds of the model.                                                    *)
(***************************************************************************)
\* largest value a tracked time scalar takes in the model
MaxTime == 2
\* largest frame delta the host passes to Host_AccumulateTime
MaxDt == 1
\* number of instructions of a synthetic instruction stream
MaxInsns == 3
\* bytes of address space given to each region of the host image
RegionSize == 1024

(***************************************************************************)
(* Program constants.                                                      *)
(***************************************************************************)
X86_FLTBLK2 == 217
X86_CALL == 232
X86_ALUMI8S == 131
X86_MOVRMW == 139
\* the scan windows of the rounds
WindowEng == 32
WindowCall == 384
\* opcodes the walker sizes besides the four above (x86.h)
X86_NOP == 144
X86_INT3 == 204
X86_RET == 195
X86_JMPIW == 233
X86_MOVEAXII == 184
\* a byte that starts no instruction the walker can size
X86_BAD == 214

NULL == 0

VARIABLES
    img,        \* host image: [region -> sequence of bytes], fixed after load
    patch,      \* bytes written over the image: [address -> byte]
    skiptime,   \* static float skiptime
    realtime,   \* float *realtime (an address, NULL = 0)
    host_frametime,            \* float *host_frametime
    orig_Host_AccumulateTime,  \* static Host_AccumulateTime_func
    fmem,       \* the values of the two tracked float globals
    rec,        \* the hook engine's record of the installed hook
    feat,       \* how far the feature's lifecycle has come
    last,       \* what the last operation did (history)
    sc,         \* the state of one scan round run step by step
    fg          \* floatgetter's input and result

vars == <<img, patch, skiptime, realtime, host_frametime,
          orig_Host_AccumulateTime, fmem, rec, feat, last, sc, fg>>

(***************************************************************************)
(* Memory.                                                                 *)
(***************************************************************************)
\* Bytes past the end of a region's listed bytes: a run of 5-byte
\* `mov eax, 0` instructions (B8 00 00 00 00), so that a scan that walks
\* off the end of a function body keeps decoding to the end of its window.
Filler(i) == IF i % 5 = 0 THEN X86_MOVEAXII ELSE 0

ImageByte(a) ==
    LET r == a \div RegionSize
        o == a % RegionSize
    IN  IF r \in DOMAIN img
        THEN IF o < Len(img[r]) THEN img[r][o + 1] ELSE Filler(o - Len(img[r]))
        ELSE Filler(o)

\* p[i] in the source: the byte now at address a
Byte(a) == IF a \in DOMAIN patch THEN patch[a] ELSE ImageByte(a)

\* the top byte of a 32-bit value, read as signed
SignedByte(b) == IF b >= 128 THEN b - 256 ELSE b

\* mem_load32 / mem_loadptr: an unaligned little-endian 32-bit load
mem_load32(a) ==
    Byte(a) + 256 * Byte(a + 1) + 65536 * Byte(a + 2)
        + 16777216 * SignedByte(Byte(a + 3))

\* the four bytes of v, little-endian (used to lay out images and patches)
LE32(v) ==
    <<v % 256, (v \div 256) % 256, (v \div 65536) % 256,
      (v \div 16777216) % 256>>

(***************************************************************************)
(* The instruction stream walker, x86_len (x86.c) and NEXT_INSN (x86util.h)*)
(***************************************************************************)
ModRM_mod(b) == b \div 64
ModRM_reg(b) == (b \div 8) % 8
ModRM_rm(b) == b % 8

\* bytes of SIB and displacement that follow the ModRM byte at address a
ModRMExtra(a) ==
    LET m == Byte(a)
        mod == ModRM_mod(m)
        rm == ModRM_rm(m)
    IN  IF mod = 3 THEN 0
        ELSE IF mod = 0
        THEN IF rm = 5 THEN 4
             ELSE IF rm = 4
             THEN (IF ModRM_rm(Byte(a + 1)) = 5 THEN 5 ELSE 1)
             ELSE 0
        ELSE IF mod = 1 THEN (IF rm = 4 THEN 2 ELSE 1)
        ELSE (IF rm = 4 THEN 5 ELSE 4)

\* x86_len(p): the length of the instruction at p, or -1
x86_len(p) ==
    LET op == Byte(p)
    IN  IF op \in {X86_NOP, X86_INT3, X86_RET} THEN 1
        ELSE IF op \in {X86_CALL, X86_JMPIW, X86_MOVEAXII} THEN 5
        ELSE IF op \in {X86_FLTBLK2, X86_MOVRMW} THEN 2 + ModRMExtra(p + 1)
        ELSE IF op = X86_ALUMI8S THEN 3 + ModRMExtra(p + 1)
        ELSE -1

\* the highest address x86_len(p) reads: the opcode, a ModRM byte, a SIB byte
x86_len_hi(p) ==
    LET op == Byte(p)
    IN  IF op \in {X86_FLTBLK2, X86_MOVRMW, X86_ALUMI8S}
        THEN IF ModRM_mod(Byte(p + 1)) # 3 /\ ModRM_rm(Byte(p + 1)) = 4
             THEN p + 2 ELSE p + 1
        ELSE p

(***************************************************************************)
(* floatgetter                                                             *)
(***************************************************************************)
floatgetter_OffByOne(fn) ==
    IF Byte(fn) # X86_FLTBLK2 \/ Byte(fn + 1) # 5 THEN NULL
    ELSE mem_load32(fn + 1)

floatgetter(fn) ==
    IF Byte(fn) # X86_FLTBLK2 \/ Byte(fn + 1) # 5 THEN NULL
    ELSE mem_load32(fn + 2)

(***************************************************************************)
(* The opcode pattern matcher: the conditions of the scan loops.           *)
(***************************************************************************)
Kinds == {"eng", "cmp", "call", "float", "accum"}

\* the window of each round's loop (p - ins < 32, p - ins < 384)
Window(kind) == IF kind = "eng" THEN WindowEng ELSE WindowCall

InWindow_Inclusive(p, ins, w) == p - ins <= w

\* the loop condition: p - ins < w
InWindow(p, ins, w) == p - ins < w

\* mov ecx, dword ptr [this]: X86_MOVRMW, X86_MODRM(0, 1, 5)
IsMovEcx(p) == Byte(p) = X86_MOVRMW /\ Byte(p + 1) = 13

\* the arming condition of each round
Arms(kind, p) ==
    CASE kind = "cmp" ->
            /\ Byte(p) = X86_ALUMI8S
            /\ ModRM_reg(Byte(p + 1)) * 8 = 56
            /\ Byte(p + 2) = 2
      [] kind = "float" ->
            /\ Byte(p) = X86_FLTBLK2
            /\ ModRM_reg(Byte(p + 1)) * 8 = 0
      [] kind = "accum" ->
            /\ Byte(p) = X86_FLTBLK2
            /\ Byte(p + 1) = 69
            /\ Byte(p + 2) = 8
      [] OTHER -> FALSE

\* the highest address the arming (or, for eng, the matching) condition
\* reads at p: C's && stops at the first false operand
MatchHi(kind, p) ==
    CASE kind = "cmp" ->
            IF Byte(p) # X86_ALUMI8S THEN p
            ELSE IF ModRM_reg(Byte(p + 1)) * 8 # 56 THEN p + 1 ELSE p + 2
      [] kind = "float" ->
            IF Byte(p) # X86_FLTBLK2 THEN p ELSE p + 1
      [] kind = "accum" ->
            IF Byte(p) # X86_FLTBLK2 THEN p
            ELSE IF Byte(p + 1) # 69 THEN p + 1 ELSE p + 2
      [] kind = "eng" ->
            IF Byte(p) # X86_MOVRMW THEN p
            ELSE IF Byte(p + 1) # 13 THEN p + 1 ELSE p + 5
      [] OTHER -> p

Confirms_Unarmed(kind, p, nextcall) == kind # "eng" /\ Byte(p) = X86_CALL

\* the confirming condition: (nextcall &&) p[0] == X86_CALL
Confirms(kind, p, nextcall) ==
    CASE kind = "call" -> Byte(p) = X86_CALL
      [] kind \in {"cmp", "float", "accum"} -> nextcall /\ Byte(p) = X86_CALL
      [] OTHER -> FALSE

CallTarget_NoLen(p) == p + mem_load32(p + 1)

\* offset = (int)mem_load32(p + 1); p + x86_len(p) + offset
CallTarget(p) == p + x86_len(p) + mem_load32(p + 1)

Max(a, b) == IF a >= b THEN a ELSE b

(***************************************************************************)
(* One scan round, as a state machine over the loop's variables.           *)
(*   p, nextcall : the loop's variables                                    *)
(*   st          : "scan" while the loop runs, then how it ended           *)
(*   ret         : the address the round resolved (NULL if none)           *)
(*   hi          : the highest address of the stream read so far           *)
(*   armedAt     : where the first arming match started (-1: none yet)     *)
(*   exam        : where the last instruction examined started (-1: none)  *)
(*   skipped     : relative calls passed over before the round was armed   *)
(*   steps       : executions of the loop body so far                      *)
(***************************************************************************)
ScanStart(ins) ==
    [p |-> ins, nextcall |-> FALSE, st |-> "scan", ret |-> NULL,
     hi |-> ins - 1, armedAt |-> -1, exam |-> -1, skipped |-> 0, steps |-> 0]

\* NEXT_INSN(p, name): advance by x86_len(p), or give up the scan
NEXT_INSN(s) ==
    IF x86_len(s.p) = -1
    THEN [s EXCEPT !.st = "decodeerr", !.hi = Max(@, x86_len_hi(s.p))]
    ELSE [s EXCEPT !.p = s.p + x86_len(s.p), !.hi = Max(@, x86_len_hi(s.p))]

\* a walker that steps over a byte it cannot size
NEXT_INSN_SkipBad(s) ==
    IF x86_len(s.p) = -1
    THEN [s EXCEPT !.p = s.p + 1, !.hi = Max(@, x86_len_hi(s.p))]
    ELSE [s EXCEPT !.p = s.p + x86_len(s.p), !.hi = Max(@, x86_len_hi(s.p))]

ScanStep_SkipBad(kind, ins, s) ==
    IF ~InWindow(s.p, ins, Window(kind))
    THEN [s EXCEPT !.st = "exhausted"]
    ELSE LET h == [s EXCEPT !.hi = Max(@, MatchHi(kind, s.p)), !.exam = s.p,
                            !.steps = @ + 1]
         IN  IF kind = "eng" /\ IsMovEcx(s.p)
             THEN [h EXCEPT !.st = "found",
                            !.ret = mem_load32(mem_load32(s.p + 2))]
             ELSE IF Arms(kind, s.p)
             THEN NEXT_INSN_SkipBad([h EXCEPT !.nextcall = TRUE,
                                      !.armedAt = IF @ = -1 THEN s.p ELSE @])
             ELSE IF Confirms(kind, s.p, s.nextcall)
             THEN [h EXCEPT !.st = "found", !.ret = CallTarget(s.p),
                            !.hi = Max(@, s.p + 4)]
             ELSE NEXT_INSN_SkipBad(h)

\* one evaluation of the loop condition and, if it holds, of the loop body
ScanStep(kind, ins, s) ==
    IF ~InWindow(s.p, ins, Window(kind))
    THEN [s EXCEPT !.st = "exhausted"]
    ELSE LET h == [s EXCEPT !.hi = Max(@, MatchHi(kind, s.p)), !.exam = s.p,
                            !.steps = @ + 1]
         IN  IF kind = "eng" /\ IsMovEcx(s.p)
             THEN [h EXCEPT !.st = "found",
                            !.ret = mem_load32(mem_load32(s.p + 2))]
             ELSE IF Arms(kind, s.p)
             THEN NEXT_INSN([h EXCEPT !.nextcall = TRUE,
                                      !.armedAt = IF @ = -1 THEN s.p ELSE @])
             ELSE IF Confirms(kind, s.p, s.nextcall)
             THEN [h EXCEPT !.st = "found", !.ret = CallTarget(s.p),
                            !.hi = Max(@, s.p + 4)]
             ELSE NEXT_INSN([h EXCEPT
                    !.skipped = IF Byte(s.p) = X86_CALL THEN @ + 1 ELSE @])

RECURSIVE ScanRun(_, _, _)
\* the whole loop: steps until the round has ended
ScanRun(kind, ins, s) ==
    IF s.st # "scan" THEN s ELSE ScanRun(kind, ins, ScanStep(kind, ins, s))


(***************************************************************************)
(* Idle values: what a variable holds in a specification that does not     *)
(* exercise it.                                                            *)
(***************************************************************************)
EmptyPatch == [a \in {} |-> 0]

NoHook == [installed |-> FALSE, target |-> NULL, saved |-> <<>>, tramp |-> NULL]

\* The history of the last operation.  Four fields are kept across
\* operations: `set` (<<v>> once sst_fastforward has been given the value v,
\* the last such v), `seen` (hook_Host_AccumulateTime has run since that set),
\* `over` (that set replaced a different value no hook invocation had seen)
\* and `pre` (the bytes found at the address handed to hook_inline, before
\* the call).  `added` is what the hook's own stores added to each global,
\* `origcalls` how often it called the original and `origdt` with what.
Blank ==
    [op |-> "none", ret |-> TRUE, errs |-> <<>>, nullread |-> FALSE,
     hlds |-> NULL, tool |-> NULL, writable |-> TRUE, log |-> <<>>,
     target |-> NULL, branch |-> "", applied |-> 0, dt |-> 0, argc |-> 0,
     added |-> [rt |-> 0, ft |-> 0], origcalls |-> 0, origdt |-> -1,
     set |-> <<>>,
     seen |-> FALSE, over |-> FALSE, pre |-> [at |-> NULL, bytes |-> <<>>]]

Record(op) ==
    [Blank EXCEPT !.op = op, !.set = last.set, !.seen = last.seen,
                  !.over = last.over, !.pre = last.pre]

IdleLife ==
    /\ patch = EmptyPatch
    /\ skiptime = 0
    /\ realtime = NULL
    /\ host_frametime = NULL
    /\ orig_Host_AccumulateTime = NULL
    /\ fmem = [rt |-> 0, ft |-> 0]
    /\ rec = NoHook
    /\ feat = "loaded"
    /\ last = Blank

IdleScan == [kind |-> "none", ins |-> NULL, tmpl |-> <<>>, lead |-> 0,
             s |-> [ScanStart(NULL) EXCEPT !.st = "idle"]]

IdleFg == [st |-> "idle", fn |-> NULL, ret |-> NULL, D |-> NULL]

lifeVars == <<patch, skiptime, realtime, host_frametime,
              orig_Host_AccumulateTime, fmem, rec, feat, last>>

\* the address at which region r starts
Base(r) == r * RegionSize

RECURSIVE Flatten(_)
Flatten(ss) == IF ss = <<>> THEN <<>> ELSE Head(ss) \o Flatten(Tail(ss))

Seqs(S, n) == UNION {[1..k -> S] : k \in 0..n}

(***************************************************************************)
(* SpecExtract: floatgetter applied to accessor functions.                 *)
(***************************************************************************)
\* first opcode bytes tried: fld (D9), mov r32 (8B), mov eax,moffs (A1), nop
ExtractOpcodes == {X86_FLTBLK2, X86_MOVRMW, 161, X86_NOP}
\* ModRM bytes tried: [disp32], ecx <- [disp32], [ebp + disp8]
ExtractModRMs == {5, 13, 69}
\* displacements tried (0x00ABCDEF is 11259375; the last two are
\* 0x80000000 and 0xFFFFFFFF)
ExtractDisps == {0, 1, 255, 256, 11259375, 2147483647, -2147483647 - 1, -1}
\* the byte that follows the first instruction
ExtractTails == {X86_RET, X86_NOP, X86_BAD}

InitExtract ==
    /\ IdleLife
    /\ sc = IdleScan
    /\ \E op \in ExtractOpcodes, m \in ExtractModRMs,
          D \in ExtractDisps, t \in ExtractTails :
          /\ img = [r \in {1} |-> <<op, m>> \o LE32(D) \o <<t>>]
          /\ fg = [IdleFg EXCEPT !.D = D]

\* a call of floatgetter on the function at the start of region 1
Extract ==
    /\ fg.st = "idle"
    /\ fg' = [fg EXCEPT !.st = "done", !.fn = Base(1),
                        !.ret = floatgetter(Base(1))]
    /\ UNCHANGED <<img, sc>>
    /\ UNCHANGED lifeVars

NextExtract == Extract

SpecExtract == InitExtract /\ [][NextExtract]_vars

(***************************************************************************)
(* SpecLocate: one scan round over a synthetic instruction stream, run     *)
(* one loop iteration at a time.                                           *)
(***************************************************************************)
\* the instructions streams are made of
Tmpl ==
    [cmp2     |-> <<X86_ALUMI8S, 56, 2>>,            \* cmp dword [eax], 2
     cmp3     |-> <<X86_ALUMI8S, 56, 3>>,            \* cmp dword [eax], 3
     fldesp   |-> <<X86_FLTBLK2, 68, 36, 8>>,        \* fld dword [esp + 8]
     fldebp8  |-> <<X86_FLTBLK2, 69, 8>>,            \* fld dword [ebp + 8]
     fstp     |-> <<X86_FLTBLK2, 93, 248>>,          \* fstp dword [ebp - 8]
     callfwd  |-> <<X86_CALL>> \o LE32(256),         \* call $ + 5 + 256
     callback |-> <<X86_CALL>> \o LE32(-16),         \* call $ + 5 - 16
     movecx   |-> <<X86_MOVRMW, 13>> \o LE32(Base(2)),  \* mov ecx, [eng]
     moveax   |-> <<X86_MOVRMW, 5>> \o LE32(Base(2)),   \* mov eax, [eng]
     bad      |-> <<X86_BAD>>,
     nops7    |-> <<X86_NOP, X86_NOP, X86_NOP, X86_NOP,
                    X86_NOP, X86_NOP, X86_NOP>>]

\* the displacement a call template carries
TmplDisp(t) == IF t = "callfwd" THEN 256 ELSE -16

\* the instructions tried in a round of each kind
Alphabet(kind) ==
    CASE kind = "eng" -> {"movecx", "moveax", "callfwd", "fstp", "bad", "nops7"}
      [] kind = "cmp" -> {"cmp2", "cmp3", "callfwd", "callback", "bad", "nops7"}
      [] kind = "call" -> {"fstp", "cmp2", "callfwd", "callback", "bad", "nops7"}
      [] kind = "float" -> {"fldesp", "fstp", "callfwd", "callback", "bad", "nops7"}
      [] kind = "accum" -> {"fldebp8", "fldesp", "callfwd", "callback", "bad", "nops7"}

\* n bytes of decodable lead-in: 5-byte mov eax, 0 and then nops
LeadBytes(n) ==
    [i \in 1..n |-> IF i <= 5 * (n \div 5) THEN Filler(i - 1) ELSE X86_NOP]

RECURSIVE TmplLen(_)
TmplLen(ts) == IF ts = <<>> THEN 0 ELSE Len(Tmpl[Head(ts)]) + TmplLen(Tail(ts))

\* lead-ins tried for a stream: none, 10 bytes, and the two that put the
\* stream's last instruction on the last byte of the window and just past it
Leads(kind, ts) ==
    IF ts = <<>> THEN {0}
    ELSE LET before == TmplLen(SubSeq(ts, 1, Len(ts) - 1))
         IN  {0, 10} \cup
             {n \in {Window(kind) - 1 - before, Window(kind) - before} : n >= 0}

\* the object the eng global points to in these streams
EngObject == Base(3) + 16

InitLocate ==
    /\ IdleLife
    /\ fg = IdleFg
    /\ \E kind \in Kinds :
       \E ts \in Seqs(Alphabet(kind), MaxInsns) :
       \E lead \in Leads(kind, ts) :
          /\ img = (1 :> (LeadBytes(lead) \o Flatten([i \in 1..Len(ts) |-> Tmpl[ts[i]]]))
                    @@ 2 :> LE32(EngObject))
          /\ sc = [IdleScan EXCEPT !.kind = kind, !.tmpl = ts, !.lead = lead]

\* the round is entered at the start of region 1
StartRound ==
    /\ sc.s.st = "idle"
    /\ sc' = [sc EXCEPT !.ins = Base(1), !.s = ScanStart(Base(1))]
    /\ UNCHANGED <<img, fg>>
    /\ UNCHANGED lifeVars

\* one iteration of the round's loop
StepRound ==
    /\ sc.s.st = "scan"
    /\ sc' = [sc EXCEPT !.s = ScanStep(sc.kind, sc.ins, sc.s)]
    /\ UNCHANGED <<img, fg>>
    /\ UNCHANGED lifeVars

NextLocate == StartRound \/ StepRound

SpecLocate == InitLocate /\ [][NextLocate]_vars

\* the host runs a round it has entered to its end
SpecLocateLive == SpecLocate /\ WF_vars(NextLocate)

(***************************************************************************)
(* The host image of the lifecycle specification.                          *)
(*   region 1       data: the interface objects, the eng global, vtables   *)
(*   region 2       the two float globals (their values are in fmem)       *)
(*   regions 3, 4   the accessors GetRealTime and HostFrameTime            *)
(*   regions 5..11  the functions of the call chain, RunFrame first        *)
(*   region 12      Host_AccumulateTime                                    *)
(*   region 13      the hook engine's trampoline buffer                    *)
(*   region 14      hook_Host_AccumulateTime                               *)
(*   region 15      code unrelated to the chain                            *)
(*   regions 16..18 a second, shorter chain: a function that loads another *)
(*                  global object, whose Frame scans like Frame and leads, *)
(*                  one level short, into State_Run                        *)
(***************************************************************************)
\* vtable slots (gamedata)
vtidx_RunFrame == 2
vtidx_Frame == 1
vtidx_GetRealTime == 1
vtidx_HostFrameTime == 2

HldsObject == Base(1)
ToolObject == Base(1) + 4
EngGlobal == Base(1) + 8
EngObjectAt == Base(1) + 12
HldsVtable == Base(1) + 16
ToolVtable == Base(1) + 32
EngVtable == Base(1) + 48
RealtimeVar == Base(2)
FrametimeVar == Base(2) + 4
TrampolineBuf == Base(13)
HookFn == Base(14)
Unrelated == Base(15)
AltEngGlobal == Base(1) + 64
AltEngObjectAt == Base(1) + 68
AltEngVtable == Base(1) + 72
AltRunFrame == Base(16)

\* the rounds of find_Host_AccumulateTime, in order: the kind of scan, the
\* region scanned in a well-formed image, and the name in the diagnostics
Rounds ==
    <<[kind |-> "eng",   region |-> 5,  name |-> "eng global object",
       miss |-> "couldn't find eng global object"],
      [kind |-> "cmp",   region |-> 6,  name |-> "HostState_Frame",
       miss |-> "couldn't find HostState_Frame"],
      [kind |-> "call",  region |-> 7,  name |-> "CHostState::FrameUpdate",
       miss |-> "couldn't find frameupdate"],
      [kind |-> "float", region |-> 8,  name |-> "CHostState::State_Run",
       miss |-> "couldn't find State_Run"],
      [kind |-> "float", region |-> 9,  name |-> "Host_RunFrame",
       miss |-> "couldn't find Host_RunFrame"],
      [kind |-> "float", region |-> 10, name |-> "_Host_RunFrame",
       miss |-> "couldn't find _Host_RunFrame"],
      [kind |-> "accum", region |-> 11, name |-> "Host_AccumulateTime",
       miss |-> "couldn't find Host_AccumulateTime"]>>

\* a relative call placed at address a that goes to address t
CallTo(a, t) == <<X86_CALL>> \o LE32(t - (a + 5))

\* the idiom that arms round i
ArmBytes(i) ==
    CASE Rounds[i].kind = "cmp" -> Tmpl.cmp2
      [] Rounds[i].kind = "float" -> Tmpl.fldesp
      [] Rounds[i].kind = "accum" -> Tmpl.fldebp8
      [] OTHER -> <<>>

\* The body of the function round i scans.
\*   "ok"      (in the rounds that arm) a call to unrelated code and the
\*             arming idiom, then a store and the call to the next function
\*             of the chain (in RunFrame: the load of the eng global)
\*   "missing" the same without the confirming instruction
\*   "bad"     a byte the walker cannot size in front of the idiom
\*   "null"    (RunFrame only) as "ok"; the eng global holds NULL
Body(i, defect) ==
    LET base == Base(Rounds[i].region)
        pre == IF defect = "bad" THEN Tmpl.bad ELSE <<>>
        decoy == IF Rounds[i].kind \in {"cmp", "float", "accum"}
                 THEN CallTo(base + Len(pre), Unrelated) ELSE <<>>
        head == pre \o decoy \o ArmBytes(i) \o Tmpl.fstp
        tail == IF defect = "missing" THEN <<>>
                ELSE IF Rounds[i].kind = "eng"
                THEN <<X86_MOVRMW, 13>> \o LE32(EngGlobal)
                ELSE CallTo(base + Len(head), Base(Rounds[i].region + 1))
    IN  head \o tail \o <<X86_RET>>

\* an accessor: fld dword ptr [v]; ret, or (shape "bad") mov eax, [v]; ret
Accessor(shape, v) ==
    IF shape = "ok" THEN <<X86_FLTBLK2, 5>> \o LE32(v) \o <<X86_RET>>
    ELSE <<X86_MOVRMW, 5>> \o LE32(v) \o <<X86_RET>>

\* Host_AccumulateTime itself: fld dword [ebp + 8]; cmp dword [eax], 2; ret
TargetBody == Tmpl.fldebp8 \o Tmpl.cmp2 \o <<X86_RET>>

Slots(n, i, f) == Flatten([k \in 1..n |-> LE32(IF k = i + 1 THEN f ELSE Unrelated)])

\* the data region: objects, the eng global, and three vtables of 4 slots
DataRegion(engnull) ==
    LE32(HldsVtable) \o LE32(ToolVtable)
    \o LE32(IF engnull THEN NULL ELSE EngObjectAt) \o LE32(EngVtable)
    \o Slots(4, vtidx_RunFrame, Base(5))
    \o Flatten([k \in 1..4 |->
                  LE32(IF k = vtidx_GetRealTime + 1 THEN Base(3)
                       ELSE IF k = vtidx_HostFrameTime + 1 THEN Base(4)
                       ELSE Unrelated)])
    \o Slots(4, vtidx_Frame, Base(6))
    \o LE32(AltEngObjectAt) \o LE32(AltEngVtable)
    \o Slots(4, vtidx_Frame, Base(17))

\* The functions of the second chain.  Its third function calls State_Run's
\* callee directly, so that a scan entered at AltRunFrame runs one level
\* ahead of the chain from the fourth round on and scans Host_AccumulateTime
\* itself in its last round.
AltBody(r) ==
    CASE r = 16 -> Tmpl.fstp \o <<X86_MOVRMW, 13>> \o LE32(AltEngGlobal)
                   \o <<X86_RET>>
      [] r = 17 -> Tmpl.cmp2 \o Tmpl.fstp
                   \o CallTo(Base(17) + 6, Base(18)) \o <<X86_RET>>
      [] r = 18 -> Tmpl.fstp \o CallTo(Base(18) + 3, Base(9)) \o <<X86_RET>>
      [] OTHER -> <<>>

\* the image in which round `at` (0: none) has the given defect
Image(at, defect, rtshape, ftshape) ==
    [r \in 1..12 |->
        IF r = 1 THEN DataRegion(at = 1 /\ defect = "null")
        ELSE IF r = 2 THEN <<>>
        ELSE IF r = 3 THEN Accessor(rtshape, RealtimeVar)
        ELSE IF r = 4 THEN Accessor(ftshape, FrametimeVar)
        ELSE IF r = 12 THEN TargetBody
        ELSE Body(r - 4, IF at = r - 4 /\ defect # "null" THEN defect ELSE "ok")]

Defects == {"missing", "bad", "null"}
Shapes == {"ok", "bad"}

\* the images tried: every round in turn with every defect ("null" is a
\* defect of the eng global, so of round 1 only), every pair of accessors,
\* and the well-formed image that also holds the second chain
AltImage ==
    [r \in 1..18 |->
        IF r <= 12 THEN Image(0, "missing", "ok", "ok")[r] ELSE AltBody(r)]

Images ==
    {Image(at, d, rs, fs) : at \in 0..Len(Rounds), d \in Defects,
                            rs \in Shapes, fs \in Shapes}
    \cup {AltImage}

(***************************************************************************)
(* find_Host_AccumulateTime                                                *)
(***************************************************************************)
\* the message of NEXT_INSN when x86_len fails
Undecodable(name) == "unknown or invalid instruction looking for " \o name

\* what is kept of a round for the history: its label, entry and outcome
RoundLog(i, ins, r) ==
    [name |-> Rounds[i].name, ins |-> ins, st |-> r.st, ret |-> r.ret,
     at |-> r.p, steps |-> r.steps]

RECURSIVE Chain(_, _, _, _, _)
\* Rounds i..7, round i entered at `ins`.  orig0 is the value the global
\* orig_Host_AccumulateTime holds when the function is called.  Rounds 2, 3
\* and 7 are loops of find_Host_AccumulateTime itself: a decode failure
\* returns false at once.  Rounds 4..6 are calls of find_floatcall: a decode
\* failure makes it return NULL and the caller reports the miss as well.
\* Round 7 assigns the global and then tests the global.
Chain(i, ins, orig0, errs, log) ==
    LET r == ScanRun(Rounds[i].kind, ins, ScanStart(ins))
        log2 == Append(log, RoundLog(i, ins, r))
        inline == i \in {2, 3, 7}
        undec == <<Undecodable(Rounds[i].name)>>
    IN  IF r.st = "decodeerr"
        THEN [ok |-> FALSE, orig |-> orig0, log |-> log2,
              errs |-> errs \o undec
                       \o (IF inline THEN <<>> ELSE <<Rounds[i].miss>>)]
        ELSE IF i = 7
        THEN LET orig == IF r.st = "found" THEN r.ret ELSE orig0
             IN  IF orig = NULL
                 THEN [ok |-> FALSE, orig |-> orig, log |-> log2,
                       errs |-> errs \o <<Rounds[i].miss>>]
                 ELSE [ok |-> TRUE, orig |-> orig, log |-> log2,
                       errs |-> errs]
        ELSE IF r.ret = NULL
        THEN [ok |-> FALSE, orig |-> orig0, log |-> log2,
              errs |-> errs \o <<Rounds[i].miss>>]
        ELSE Chain(i + 1, r.ret, orig0, errs, log2)

\* the slot idx of the vtable of the object at obj, as the source reads it
\* through a void *** (hldsapi, eng, enginetool)
Vcall(obj, idx) == mem_load32(mem_load32(obj) + 4 * idx)

\* find_Host_AccumulateTime, entered with the address `runframe` read from
\* the hlds interface.  Round 1 looks for the load of the eng global.
find_Host_AccumulateTime(runframe, orig0, errs) ==
    LET r == ScanRun("eng", runframe, ScanStart(runframe))
        log == <<RoundLog(1, runframe, r)>>
    IN  IF r.st = "decodeerr"
        THEN [ok |-> FALSE, orig |-> orig0, log |-> log,
              errs |-> errs \o <<Undecodable(Rounds[1].name)>>]
        ELSE IF r.ret = NULL
        THEN [ok |-> FALSE, orig |-> orig0, log |-> log,
              errs |-> errs \o <<Rounds[1].miss>>]
        ELSE Chain(2, Vcall(r.ret, vtidx_Frame), orig0, errs, log)

(***************************************************************************)
(* The inline hook engine: hook_inline and unhook_inline (hook.c).         *)
(***************************************************************************)
\* memory pt with the bytes bs written at address a
WriteBytes(pt, a, bs) ==
    LET range == {a + k - 1 : k \in 1..Len(bs)}
        new(x) == IF x \in range THEN bs[x - a + 1] ELSE pt[x]
        keep == {x \in DOMAIN pt \cup range : new(x) # ImageByte(x)}
    IN  [x \in keep |-> new(x)]

RECURSIVE SavedLen(_, _)
\* how many bytes at a, in whole instructions, make up at least 5 from n
\* on (-1 if the walker cannot size one of them)
SavedLen(a, n) ==
    IF n >= 5 THEN n
    ELSE IF x86_len(a + n) = -1 THEN -1
    ELSE SavedLen(a, n + x86_len(a + n))

\* hook_inline(func, target): the pointer returned, the memory and the record
\* after it.  `writable` is whether the host lets the code at func be written.
hook_inline(func, target, writable) ==
    LET n == SavedLen(func, 0)
        saved == [k \in 1..n |-> Byte(func + k - 1)]
        tramp == IF func = TrampolineBuf THEN TrampolineBuf + 64
                 ELSE TrampolineBuf
        back == <<X86_JMPIW>> \o LE32((func + n) - (tramp + n + 5))
        jmp == <<X86_JMPIW>> \o LE32(target - (func + 5))
    IN  IF ~writable \/ n = -1
        THEN [ret |-> NULL, patch |-> patch, rec |-> rec]
        ELSE [ret |-> tramp,
              patch |-> WriteBytes(WriteBytes(patch, tramp, saved \o back),
                                   func, jmp),
              rec |-> [installed |-> TRUE, target |-> func,
                       saved |-> saved, tramp |-> tramp]]

\* memory pt without what was written to the n bytes at a
Release(pt, a, n) ==
    [x \in {y \in DOMAIN pt : y < a \/ y >= a + n} |-> pt[x]]

\* unhook_inline(orig): the memory and the record after it.  The saved
\* bytes go back to the target, the record is marked uninstalled, and the
\* trampoline is released: what it held is no longer part of the memory
\* the model follows.
unhook_inline(orig) ==
    IF rec.installed /\ orig = rec.tramp
    THEN [patch |-> Release(WriteBytes(patch, rec.target, rec.saved),
                            rec.tramp, Len(rec.saved) + 5),
          rec |-> [rec EXCEPT !.installed = FALSE]]
    ELSE [patch |-> patch, rec |-> rec]

(***************************************************************************)
(* The command and the hook callback.                                      *)
(***************************************************************************)
Digits == {"0", "1", "2"}
DigitVal(c) == CASE c = "0" -> 0 [] c = "1" -> 1 [] c = "2" -> 2

RECURSIVE AtofDigits(_, _)
AtofDigits(str, acc) ==
    IF str = <<>> \/ Head(str) \notin Digits THEN acc
    ELSE AtofDigits(Tail(str), 10 * acc + DigitVal(Head(str)))

\* atof: an optional sign and the digits that follow; 0 if there are none
atof(str) ==
    IF str # <<>> /\ Head(str) = "-" THEN -AtofDigits(Tail(str), 0)
    ELSE AtofDigits(str, 0)

\* the argument strings tried
ArgStrings ==
    {<<>>, <<"0">>, <<"1">>, <<"2">>, <<"-", "1">>, <<"1", "x">>}

\* the argument vectors tried: the command alone, with one argument, with two
ArgVectors ==
    {<<"sst_fastforward">>, <<"sst_fastforward", <<"1">>, <<"2">>>>}
    \cup {<<"sst_fastforward", a>> : a \in ArgStrings}

NewSkip_Accumulate(old, argv) == old + atof(argv[2])

\* skiptime = (float)atof(cmd->argv[1])
NewSkip(old, argv) == atof(argv[2])

sst_fastforward_AtLeast(argv) ==
    /\ feat # "crashed"
    /\ IF Len(argv) < 2
       THEN /\ last' = [Record("cmd") EXCEPT !.argc = Len(argv),
                          !.errs = <<"usage: sst_fastforward <time>">>]
            /\ UNCHANGED skiptime
       ELSE /\ skiptime' = NewSkip(skiptime, argv)
            /\ last' = [Record("cmd") EXCEPT !.argc = Len(argv),
                          !.set = <<atof(argv[2])>>, !.seen = FALSE,
                          !.over = /\ last.set # <<>>
                                   /\ ~last.seen
                                   /\ last.set[1] # atof(argv[2])]
    /\ UNCHANGED <<img, patch, realtime, host_frametime,
                   orig_Host_AccumulateTime, fmem, rec, feat, sc, fg>>

\* sst_fastforward
sst_fastforward(argv) ==
    /\ feat # "crashed"
    /\ IF Len(argv) # 2
       THEN /\ last' = [Record("cmd") EXCEPT !.argc = Len(argv),
                          !.errs = <<"usage: sst_fastforward <time>">>]
            /\ UNCHANGED skiptime
       ELSE /\ skiptime' = NewSkip(skiptime, argv)
            /\ last' = [Record("cmd") EXCEPT !.argc = Len(argv),
                          !.set = <<atof(argv[2])>>, !.seen = FALSE,
                          !.over = /\ last.set # <<>>
                                   /\ ~last.seen
                                   /\ last.set[1] # atof(argv[2])]
    /\ UNCHANGED <<img, patch, realtime, host_frametime,
                   orig_Host_AccumulateTime, fmem, rec, feat, sc, fg>>

\* skiptime > 0.
SkipPending_NonZero(s) == s # 0

SkipPending(s) == s > 0

\* *ptr += amount, for the two float globals the model tracks
AddTo(fm, ptr, amount) ==
    IF ptr = RealtimeVar THEN [fm EXCEPT !.rt = @ + amount]
    ELSE IF ptr = FrametimeVar THEN [fm EXCEPT !.ft = @ + amount]
    ELSE fm

ApplySkip_NoReset(fm, s) ==
    [fmem |-> AddTo(AddTo(fm, realtime, s), host_frametime, s), skiptime |-> s]

\* *realtime += skiptime; *host_frametime += skiptime; skiptime = 0.0;
ApplySkip(fm, s) ==
    [fmem |-> AddTo(AddTo(fm, realtime, s), host_frametime, s), skiptime |-> 0]

\* hook_Host_AccumulateTime(dt), which runs when the host calls the patched
\* function.  A store through a NULL pointer, or a call of a NULL
\* orig_Host_AccumulateTime, is an access violation: the process is gone.
\* The original Host_AccumulateTime is host code: it may leave any values in
\* the two globals.
hook_Host_AccumulateTime(dt) ==
    /\ feat # "crashed"
    /\ rec.installed
    /\ IF SkipPending(skiptime)
       THEN IF realtime = NULL \/ host_frametime = NULL
            THEN /\ feat' = "crashed"
                 /\ fmem' = IF realtime = NULL THEN fmem
                            ELSE AddTo(fmem, realtime, skiptime)
                 /\ fmem'.rt <= MaxTime
                 /\ last' = [Record("hook") EXCEPT !.branch = "crash", !.dt = dt,
                       !.seen = TRUE, !.applied = skiptime,
                       !.added = [rt |-> fmem'.rt - fmem.rt, ft |-> 0]]
                 /\ UNCHANGED skiptime
            ELSE /\ fmem' = ApplySkip(fmem, skiptime).fmem
                 /\ fmem'.rt <= MaxTime /\ fmem'.ft <= MaxTime
                 /\ skiptime' = ApplySkip(fmem, skiptime).skiptime
                 /\ last' = [Record("hook") EXCEPT !.branch = "skip", !.dt = dt,
                       !.seen = TRUE, !.applied = skiptime,
                       !.added = [rt |-> fmem'.rt - fmem.rt,
                                  ft |-> fmem'.ft - fmem.ft]]
                 /\ UNCHANGED feat
       ELSE IF orig_Host_AccumulateTime = NULL
            THEN /\ feat' = "crashed"
                 /\ last' = [Record("hook") EXCEPT !.branch = "crash", !.dt = dt,
                                                   !.seen = TRUE]
                 /\ UNCHANGED <<fmem, skiptime>>
            ELSE /\ \E rt \in 0..MaxTime, ft \in 0..MaxTime :
                        fmem' = [rt |-> rt, ft |-> ft]
                 /\ last' = [Record("hook") EXCEPT !.branch = "orig", !.dt = dt,
                                                   !.seen = TRUE,
                                                   !.origcalls = 1,
                                                   !.origdt = dt]
                 /\ UNCHANGED <<feat, skiptime>>
    /\ UNCHANGED <<img, patch, realtime, host_frametime,
                   orig_Host_AccumulateTime, rec, sc, fg>>

(***************************************************************************)
(* The lifecycle: PREINIT, INIT, END.  The feature framework calls PREINIT,*)
(* then INIT, and END only after an INIT that returned true; after END (or *)
(* a failed INIT) the plugin may be loaded again.  END may be repeated.    *)
(***************************************************************************)
PREINIT ==
    /\ feat \in {"loaded", "failed", "ended"}
    /\ feat' = "ready"
    /\ last' = Record("PREINIT")
    /\ UNCHANGED <<img, patch, skiptime, realtime, host_frametime,
                   orig_Host_AccumulateTime, fmem, rec, sc, fg>>

\* what reading through a NULL hldsapi may give: an address of code
\* unrelated to the chain, (by chance) RunFrame itself, or a function from
\* which the scans resolve some other chain
Garbage == {Unrelated, Base(5), AltRunFrame}

\* The rest of INIT once hldsapi has been read: find_Host_AccumulateTime
\* entered with `runframe`, then hook_inline.  h is the history so far, errs
\* the messages so far; writable is whether hook_inline can patch.
INIT_Locate(h, runframe, errs) ==
    \E f \in {find_Host_AccumulateTime(runframe, orig_Host_AccumulateTime, errs)} :
        IF ~f.ok
        THEN /\ last' = [h EXCEPT !.ret = FALSE, !.log = f.log,
                    !.errs = f.errs \o <<"couldn't find Host_Accumulate">>]
             /\ feat' = "failed"
             /\ orig_Host_AccumulateTime' = f.orig
             /\ UNCHANGED <<patch, rec>>
        ELSE \E writable \in BOOLEAN :
             \E hk \in {hook_inline(f.orig, HookFn, writable)} :
                /\ last' = [h EXCEPT !.ret = TRUE, !.log = f.log,
                      !.errs = f.errs, !.target = f.orig,
                      !.writable = writable,
                      !.pre = [at |-> f.orig,
                               bytes |-> [k \in 1..8 |-> Byte(f.orig + k - 1)]]]
                /\ feat' = "active"
                /\ orig_Host_AccumulateTime' = hk.ret
                /\ patch' = hk.patch
                /\ rec' = hk.rec

\* INIT.  tool and hlds are what factory_engine returns for the two version
\* strings.  Reading through a NULL hldsapi is undefined: the process
\* crashes, or the read gives some address ub and INIT goes on.
INIT ==
    /\ feat = "ready"
    /\ \E tool \in {NULL, ToolObject} :
       IF tool = NULL
       THEN /\ last' = [Record("INIT") EXCEPT !.ret = FALSE,
                           !.errs = <<"missing engine tool interface">>]
            /\ feat' = "failed"
            /\ UNCHANGED <<patch, realtime, host_frametime,
                           orig_Host_AccumulateTime, rec>>
       ELSE
       /\ realtime' = floatgetter(Vcall(tool, vtidx_GetRealTime))
       /\ host_frametime' = floatgetter(Vcall(tool, vtidx_HostFrameTime))
       /\ \E hlds \in {NULL, HldsObject} :
          LET h == [Record("INIT") EXCEPT !.tool = tool, !.hlds = hlds,
                                          !.nullread = (hlds = NULL)]
          IN  IF hlds = NULL
              THEN \/ /\ last' = [h EXCEPT !.ret = FALSE,
                                     !.errs = <<"missing hlds api interface">>]
                      /\ feat' = "crashed"
                      /\ UNCHANGED <<patch, orig_Host_AccumulateTime, rec>>
                   \/ \E ub \in Garbage :
                         INIT_Locate(h, ub, <<"missing hlds api interface">>)
              ELSE INIT_Locate(h, Vcall(hlds, vtidx_RunFrame), <<>>)
    /\ UNCHANGED <<img, skiptime, fmem, sc, fg>>

END_NoUnhook ==
    /\ feat \in {"active", "ended"}
    /\ feat' = "ended"
    /\ last' = Record("END")
    /\ UNCHANGED <<img, patch, rec, skiptime, realtime, host_frametime,
                   orig_Host_AccumulateTime, fmem, sc, fg>>

END_WrongPointer ==
    /\ feat \in {"active", "ended"}
    /\ feat' = "ended"
    /\ patch' = unhook_inline(HookFn).patch
    /\ rec' = unhook_inline(HookFn).rec
    /\ last' = Record("END")
    /\ UNCHANGED <<img, skiptime, realtime, host_frametime,
                   orig_Host_AccumulateTime, fmem, sc, fg>>

\* END: unhook_inline((void*)orig_Host_AccumulateTime)
END ==
    /\ feat \in {"active", "ended"}
    /\ feat' = "ended"
    /\ patch' = unhook_inline(orig_Host_AccumulateTime).patch
    /\ rec' = unhook_inline(orig_Host_AccumulateTime).rec
    /\ last' = Record("END")
    /\ UNCHANGED <<img, skiptime, realtime, host_frametime,
                   orig_Host_AccumulateTime, fmem, sc, fg>>

Init ==
    /\ img \in Images
    /\ patch = EmptyPatch
    /\ skiptime = 0
    /\ realtime = NULL
    /\ host_frametime = NULL
    /\ orig_Host_AccumulateTime = NULL
    /\ fmem = [rt |-> 0, ft |-> 0]
    /\ rec = NoHook
    /\ feat = "loaded"
    /\ last = Blank
    /\ sc = IdleScan
    /\ fg = IdleFg

Command == \E argv \in ArgVectors : sst_fastforward(argv)

HostFrame == \E dt \in 0..MaxDt : hook_Host_AccumulateTime(dt)

Next == PREINIT \/ INIT \/ END \/ Command \/ HostFrame

Spec == Init /\ [][Next]_vars

(***************************************************************************)
(* What a stream holds, read off the instructions it was built from (not   *)
(* off its bytes): the reference the scan's results are compared with.     *)
(***************************************************************************)
ArmedKinds == {"cmp", "float", "accum"}

\* instruction t is the arming idiom of a round of this kind
IsArmT(kind, t) ==
    \/ kind = "cmp" /\ t = "cmp2"
    \/ kind = "float" /\ t \in {"fldesp", "fldebp8"}
    \/ kind = "accum" /\ t = "fldebp8"

IsCallT(t) == t \in {"callfwd", "callback"}

\* the offset from the entry at which the j-th instruction starts
OffsetOf(j) == sc.lead + TmplLen(SubSeq(sc.tmpl, 1, j - 1))

\* the j-th instruction is a relative call that starts inside the window,
\* after an arming idiom (for the rounds that arm), and the walker can size
\* every instruction before it
ConfirmsAt(j) ==
    /\ j \in 1..Len(sc.tmpl)
    /\ IsCallT(sc.tmpl[j])
    /\ OffsetOf(j) < Window(sc.kind)
    /\ \A k \in 1..(j - 1) : sc.tmpl[k] # "bad"
    /\ \/ sc.kind = "call"
       \/ \E i \in 1..(j - 1) : IsArmT(sc.kind, sc.tmpl[i])

\* the first such call
FirstConfirm(j) == ConfirmsAt(j) /\ \A k \in 1..(j - 1) : ~ConfirmsAt(k)

ScanEnded == sc.s.st \in {"found", "exhausted", "decodeerr"}

\* C6: for a function that starts with X86_FLTBLK2, ModRM 0x05 and the
\* displacement D, floatgetter returns exactly D, whatever follows the first
\* instruction; for a function whose first byte is any other opcode it
\* returns NULL.
C6_ExtractorResult ==
    fg.st = "done" =>
        /\ (img[1][1] = X86_FLTBLK2 /\ img[1][2] = 5) => fg.ret = fg.D
        /\ img[1][1] # X86_FLTBLK2 => fg.ret = NULL

\* C6 witness: fld dword ptr [0x00ABCDEF]; ret gives 0x00ABCDEF
C6_Witness ==
    /\ fg.st = "done"
    /\ img[1] = <<X86_FLTBLK2, 5, 239, 205, 171, 0, X86_RET>>
    /\ fg.ret = 11259375

\* C7: in a round that arms (cmp, float, accum), if an arming idiom is
\* followed by a relative call that starts inside the window, at address A
\* with length 5 and signed displacement R, the round ends having found
\* exactly A + 5 + R, for the first such call.
C7_LocatorResult ==
    (ScanEnded /\ sc.kind \in ArmedKinds) =>
        \A j \in 1..Len(sc.tmpl) :
            FirstConfirm(j) =>
                /\ sc.s.st = "found"
                /\ sc.s.ret = sc.ins + OffsetOf(j) + 5 + TmplDisp(sc.tmpl[j])

\* C7 witness: a compare with immediate 2 at offset 10, a relative call at
\* offset 20 whose target is X = entry + 20 + 5 + 256, and the round gives X
C7_Witness ==
    /\ sc.kind = "cmp"
    /\ sc.lead = 10
    /\ sc.tmpl = <<"cmp2", "nops7", "callfwd">>
    /\ sc.s.st = "found"
    /\ sc.s.ret = Base(1) + 281

\* C8: if no relative call starts inside the window after an arming match
\* (in the rounds that arm; in the call round, no relative call at all),
\* the round ends without an address: with the window exhausted, or, if the
\* walker met a byte it cannot size, with a decode failure.  An idiom that
\* starts at offset >= W is never used: the arming match and the call of a
\* round that found a target both start inside the window.
C8_LocatorFailure ==
    (ScanEnded /\ sc.kind # "eng") =>
        /\ (\A j \in 1..Len(sc.tmpl) : ~ConfirmsAt(j)) =>
              /\ sc.s.st \in {"exhausted", "decodeerr"}
              /\ sc.s.ret = NULL
              /\ (\A k \in 1..Len(sc.tmpl) : sc.tmpl[k] # "bad") =>
                    sc.s.st = "exhausted"
        /\ sc.s.st = "found" =>
              /\ sc.s.p - sc.ins < Window(sc.kind)
              /\ sc.kind \in ArmedKinds =>
                    (sc.s.armedAt >= sc.ins
                     /\ sc.s.armedAt - sc.ins < Window(sc.kind))

\* C8 witness: the arming fld inside the window, the call exactly at offset
\* W: the window is exhausted and nothing is returned
C8_Witness ==
    /\ sc.kind = "float"
    /\ sc.tmpl = <<"fldesp", "callfwd">>
    /\ OffsetOf(2) = Window(sc.kind)
    /\ sc.s.st = "exhausted"
    /\ sc.s.ret = NULL

\* C9 as claimed: every byte a round reads lies strictly below E + W.
C9_ReadsBelowWindowEnd ==
    sc.s.st # "idle" => sc.s.hi < sc.ins + Window(sc.kind)

\* C9 as amended: every instruction a round examines starts strictly below
\* E + W, and every byte the round reads lies at most 4 bytes after the
\* start of an examined instruction (the displacement of a call), hence
\* strictly below E + W + 4; in the eng round, whose match reads the 4-byte
\* operand of a 2-byte mov, at most 5 bytes after it.
C9_ReadsWithinLastInsn ==
    LET reach == IF sc.kind = "eng" THEN 5 ELSE 4
    IN  sc.s.st # "idle" =>
            /\ sc.s.exam < sc.ins + Window(sc.kind)
            /\ sc.s.hi <= Max(sc.s.exam + reach, sc.ins - 1)
            /\ sc.s.hi < sc.ins + Window(sc.kind) + reach

\* C9 witness: an armed round meets a relative call on the last byte of the
\* window and reads its displacement from the four bytes past the window
C9_Witness ==
    /\ sc.kind = "cmp"
    /\ sc.tmpl = <<"cmp2", "callfwd">>
    /\ sc.s.st = "found"
    /\ sc.s.p = sc.ins + Window(sc.kind) - 1
    /\ sc.s.hi = sc.ins + Window(sc.kind) + 3

(***************************************************************************)
(* The skip request, the lifecycle and the hook round trip (Spec).         *)
(***************************************************************************)
\* a step of hook_Host_AccumulateTime
HookStep == last'.op = "hook"

\* a value has been set that no hook invocation has seen yet
Unseen == last.set # <<>> /\ ~last.seen

NoneAdded == [rt |-> 0, ft |-> 0]

\* INIT found both float globals
ScalarsFound == realtime # NULL /\ host_frametime # NULL

\* C1 as stated: for every value V set, the next hook invocation adds V once
\* to both globals and clears the request, and a second invocation in a row
\* adds nothing.  (Stated for the runs in which INIT found both globals.)
C1_EveryValueAppliedOnce ==
    [][(HookStep /\ ScalarsFound) =>
         IF Unseen
         THEN /\ last'.added = [rt |-> last.set[1], ft |-> last.set[1]]
              /\ skiptime' = 0
         ELSE last'.added = NoneAdded]_vars

\* C1, amended: for every value V > 0 set, the next hook invocation adds V
\* once to *realtime and to *host_frametime and zeroes skiptime when both
\* pointers are non-null, and stores through a null pointer otherwise; any
\* other hook invocation (V <= 0, no set, or a set already seen) stores
\* nothing, leaves skiptime alone and calls the original.
C1_PositiveAppliedOnce ==
    [][HookStep =>
         IF Unseen /\ last.set[1] > 0
         THEN IF ScalarsFound
              THEN /\ fmem'.rt = fmem.rt + last.set[1]
                   /\ fmem'.ft = fmem.ft + last.set[1]
                   /\ skiptime' = 0
                   /\ feat' = feat
              ELSE feat' = "crashed"
         ELSE /\ last'.branch = "orig"
              /\ last'.origcalls = 1
              /\ last'.added = NoneAdded
              /\ skiptime' = skiptime]_vars

C1_Witness ==
    /\ last.op = "hook"
    /\ last.branch = "skip"
    /\ last.set # <<>> /\ last.set[1] > 0
    /\ last.added = [rt |-> last.set[1], ft |-> last.set[1]]
    /\ skiptime = 0

\* C2 as stated: the amount a hook invocation applies equals the last value
\* set since the previous one.  (Stated for the runs in which INIT found both
\* globals.)
C2_LastValueApplied ==
    [][(HookStep /\ Unseen /\ ScalarsFound) =>
         (last'.added.rt = last.set[1] /\ last'.added.ft = last.set[1])]_vars

\* C2, amended: an accepted sst_fastforward leaves exactly the value it was
\* given in skiptime, whatever was there; a hook invocation adds to each
\* global either nothing or the last value set, and it adds that value to
\* both when it is positive, unseen and both pointers are non-null, and
\* nothing at all when it is not positive or already seen.
C2_SingleSlot ==
    [][/\ (last'.op = "cmd" /\ last'.errs = <<>>) => skiptime' = last'.set[1]
       /\ HookStep =>
            IF Unseen /\ last.set[1] > 0
            THEN /\ last'.added.rt \in {0, last.set[1]}
                 /\ last'.added.ft \in {0, last.set[1]}
                 /\ ScalarsFound =>
                       /\ last'.added.rt = last.set[1]
                       /\ last'.added.ft = last.set[1]
            ELSE last'.added = NoneAdded]_vars

C2_Witness ==
    /\ last.op = "hook"
    /\ last.over
    /\ last.branch = "skip"
    /\ last.added.rt = last.set[1]
    /\ last.added.ft = last.set[1]

\* C3 as stated: when factory_engine returns NULL for either version string,
\* INIT returns false, nothing is read through the NULL pointer and no hook
\* is installed.
C3_MissingInterfaceFails ==
    (last.op = "INIT" /\ (last.tool = NULL \/ last.hlds = NULL)) =>
        /\ last.ret = FALSE
        /\ ~last.nullread
        /\ ~rec.installed

\* C4 as stated: whenever the hook is installed, realtime and host_frametime
\* are both non-null.
C4_InstalledImpliesScalars ==
    rec.installed => (realtime # NULL /\ host_frametime # NULL)

\* C5 as stated: when hook_inline fails, INIT returns false and the feature
\* is not left initialised with no original-function pointer.
C5_InstallFailureFails ==
    (last.op = "INIT" /\ last.target # NULL /\ ~rec.installed) =>
        /\ last.ret = FALSE
        /\ ~(feat = "active" /\ orig_Host_AccumulateTime = NULL)

\* C10: after END, the bytes at the address that was handed to hook_inline
\* are the bytes that were there before the call, and an END that follows an
\* END changes neither the memory nor the hook record.
C10_RoundTrip ==
    /\ [](last.op = "END" =>
            \A k \in 1..Len(last.pre.bytes) :
                Byte(last.pre.at + k - 1) = last.pre.bytes[k])
    /\ [][(feat = "ended" /\ last'.op = "END") =>
            (patch' = patch /\ rec' = rec)]_vars

C10_Witness ==
    /\ last.op = "END"
    /\ rec.target # NULL
    /\ ~rec.installed
    /\ last.pre.at = rec.target
    /\ patch = EmptyPatch

CmdStep == last'.op = "cmd"

\* C12: sst_fastforward with argc # 2 emits the usage message and nothing
\* else, and leaves skiptime, the two globals, the pointers, the patched
\* memory, the hook record and the lifecycle state as they were; with
\* argc = 2 it emits nothing.
C12_CommandMisuse ==
    [][CmdStep =>
         IF last'.argc # 2
         THEN /\ last'.errs = <<"usage: sst_fastforward <time>">>
              /\ last'.ret = TRUE
              /\ last'.set = last.set /\ last'.seen = last.seen
              /\ UNCHANGED <<skiptime, fmem, realtime, host_frametime,
                             orig_Host_AccumulateTime, patch, rec, feat>>
         ELSE last'.errs = <<>>]_vars

\* a misuse that found a request pending and a hook installed
C12_Witness ==
    /\ last.op = "cmd"
    /\ last.argc = 3
    /\ last.errs # <<>>
    /\ skiptime > 0
    /\ rec.installed

\* the instruction of the stream that starts at address a (0: none does)
IndexAt(a) ==
    IF \E j \in 1..Len(sc.tmpl) : sc.ins + OffsetOf(j) = a
    THEN CHOOSE j \in 1..Len(sc.tmpl) : sc.ins + OffsetOf(j) = a
    ELSE 0

\* C13: in a round that arms, a round that is not armed has produced no
\* target; an armed round stays armed; and a round that found a target was
\* armed by the first arming idiom of the stream, passed over every
\* relative call in front of that idiom, met no relative call between the
\* idiom and the call it resolved, and returns that call's target.
C13_ArmThenConfirm ==
    /\ []((sc.kind \in ArmedKinds /\ sc.s.st # "idle") =>
            /\ ~sc.s.nextcall => (sc.s.st # "found" /\ sc.s.ret = NULL)
            /\ sc.s.nextcall <=> sc.s.armedAt # -1
            /\ sc.s.st = "found" =>
                 LET a == IndexAt(sc.s.armedAt)
                     c == IndexAt(sc.s.p)
                 IN  /\ a >= 1 /\ c > a
                     /\ IsArmT(sc.kind, sc.tmpl[a])
                     /\ \A k \in 1..(a - 1) : ~IsArmT(sc.kind, sc.tmpl[k])
                     /\ IsCallT(sc.tmpl[c])
                     /\ \A k \in (a + 1)..(c - 1) : ~IsCallT(sc.tmpl[k])
                     /\ sc.s.skipped =
                           Cardinality({k \in 1..(a - 1) : IsCallT(sc.tmpl[k])})
                     /\ sc.s.ret = sc.s.p + 5 + TmplDisp(sc.tmpl[c]))
    /\ [][(sc.s.nextcall => sc'.s.nextcall)
          /\ (sc.s.armedAt # -1 => sc'.s.armedAt = sc.s.armedAt)]_vars

\* a relative call in front of the compare is passed over; the call after
\* the compare gives the target
C13_Witness ==
    /\ sc.kind = "cmp"
    /\ sc.lead = 0
    /\ sc.tmpl = <<"callback", "cmp2", "callfwd">>
    /\ sc.s.st = "found"
    /\ sc.s.skipped = 1
    /\ sc.s.armedAt = Base(1) + 5
    /\ sc.s.ret = Base(1) + 8 + 5 + 256

\* INIT has just run and got as far as find_Host_AccumulateTime
Located == last.op = "INIT" /\ last.log # <<>>

\* the messages that name round k's target
RoundErrs(k) == {Rounds[k].miss, Undecodable(Rounds[k].name)}

\* C14 as stated: the rounds run in the fixed order, each entered at the
\* address the round before it returned (the second at the Frame slot of the
\* object the first returned); when round k fails no later round runs, an
\* error names round k's target, INIT returns false and hook_inline is not
\* called.
C14_RoundChaining ==
    Located =>
        LET n == Len(last.log)
        IN  /\ n <= Len(Rounds)
            /\ \A i \in 1..n : last.log[i].name = Rounds[i].name
            /\ \A i \in 2..n :
                  /\ last.log[i - 1].st = "found"
                  /\ last.log[i].ins =
                        IF i = 2 THEN Vcall(last.log[1].ret, vtidx_Frame)
                        ELSE last.log[i - 1].ret
            /\ (last.log[n].st = "found" /\ last.log[n].ret # NULL) =>
                  n = Len(Rounds)
            /\ (last.log[n].st # "found" \/ last.log[n].ret = NULL) =>
                  /\ \E e \in RoundErrs(n) :
                        \E j \in 1..Len(last.errs) : last.errs[j] = e
                  /\ last.ret = FALSE
                  /\ last.target = NULL
                  /\ ~rec.installed

\* C19 as stated: hook_inline is called only after a last round that
\* confirmed a relative call in this very INIT, and with that call's target.
C19_FreshTarget ==
    (last.op = "INIT" /\ last.target # NULL) =>
        /\ Len(last.log) = Len(Rounds)
        /\ last.log[Len(Rounds)].st = "found"
        /\ last.target = last.log[Len(Rounds)].ret

\* the message e is among those the last operation emitted
Reported(e) == \E j \in 1..Len(last.errs) : last.errs[j] = e

\* the images whose round k starts with a byte the walker cannot size
BadAt(k) == {Image(k, "bad", rs, fs) : rs \in Shapes, fs \in Shapes}

\* C15: when the walker cannot size an instruction in round k, the scan
\* stops on that instruction, no later round runs, the diagnostic carries
\* round k's label, INIT returns false with no hook installed and the
\* process goes on; and an INIT that enters the chain at RunFrame, in an
\* image whose round k starts with an unsizable byte, ends in just that way.
C15_DecodeError ==
    Located =>
        LET n == Len(last.log)
        IN  /\ (\E i \in 1..n : last.log[i].st = "decodeerr") =>
                  /\ last.log[n].st = "decodeerr"
                  /\ \A i \in 1..(n - 1) : last.log[i].st = "found"
                  /\ last.log[n].ret = NULL
                  /\ x86_len(last.log[n].at) = -1
                  /\ Reported(Undecodable(Rounds[n].name))
                  /\ last.ret = FALSE
                  /\ last.target = NULL
                  /\ ~rec.installed
                  /\ feat = "failed"
            /\ \A k \in 1..Len(Rounds) :
                  (img \in BadAt(k) /\ last.log[1].ins = Base(Rounds[1].region)) =>
                      /\ n = k
                      /\ last.log[k].st = "decodeerr"
                      /\ last.log[k].at = Base(Rounds[k].region)

\* State_Run's scan (a call of find_floatcall) meets the unsizable byte
C15_Witness ==
    /\ Located
    /\ Len(last.log) = 4
    /\ last.log[4].st = "decodeerr"
    /\ Reported("unknown or invalid instruction looking for CHostState::State_Run")
    /\ Reported("couldn't find State_Run")
    /\ last.ret = FALSE
    /\ feat = "failed"

\* C16: INIT always returns, and every round it ran executed its loop body
\* at most W times and ended in exactly one of: target returned, window
\* exhausted, decode failure.
C16_InitReturns ==
    last.op = "INIT" =>
        /\ feat \in {"active", "failed"}
        /\ \A i \in 1..Len(last.log) :
              /\ last.log[i].st \in {"found", "exhausted", "decodeerr"}
              /\ last.log[i].steps <= Window(Rounds[i].kind)

\* The rounds themselves, on every stream: each execution of the loop body
\* ends the round or moves the position forward by at least one byte, the
\* body runs at most W times, the round ends, and it ends in exactly one of
\* the three ways.
ScanTerminates ==
    /\ [][sc.s.st = "scan" =>
            /\ sc'.s.steps <= sc.s.steps + 1
            /\ sc'.s.st = "scan" =>
                  (sc'.s.p >= sc.s.p + 1 /\ sc'.s.steps = sc.s.steps + 1)
            /\ sc'.s.st # "scan" => sc'.s.p = sc.s.p]_vars
    /\ [](sc.s.steps <= Window(sc.kind))
    /\ [](sc.s.st \in {"idle", "scan", "found", "exhausted", "decodeerr"})
    /\ [](sc.s.st = "decodeerr" => sc.s.ret = NULL)
    /\ [](sc.s.st = "exhausted" => sc.s.ret = NULL)
    /\ <>[]ScanEnded

\* C17: every invocation of the hook does exactly one of two things: it
\* applies the pending skip (adds it to both globals, clears it) and does
\* not call the original, or it calls the original exactly once with the dt
\* it was given and itself leaves skiptime and both globals untouched.
C17_ExactlyOneOf ==
    [][HookStep =>
         LET applies == /\ last'.applied = skiptime
                        /\ last'.added = [rt |-> skiptime, ft |-> skiptime]
                        /\ skiptime' = 0
             calls   == /\ last'.origcalls = 1
                        /\ last'.origdt = last'.dt
                        /\ last'.added = NoneAdded
                        /\ skiptime' = skiptime
         IN  \/ (SkipPending(skiptime) /\ applies /\ last'.origcalls = 0)
             \/ (~SkipPending(skiptime) /\ calls)]_vars

\* C18: while the pending value is zero or negative, a hook invocation adds
\* nothing, leaves the value pending and calls the original once; such a
\* value changes only by an accepted command; and no hook invocation ever
\* adds a negative amount to either global.
C18_NonPositiveKept ==
    [][/\ (HookStep /\ skiptime <= 0) =>
             /\ last'.branch = "orig"
             /\ last'.origcalls = 1
             /\ last'.applied = 0
             /\ last'.added = NoneAdded
             /\ skiptime' = skiptime
       /\ (skiptime <= 0 /\ skiptime' # skiptime) =>
             (last'.op = "cmd" /\ last'.errs = <<>>)
       /\ HookStep => (last'.added.rt >= 0 /\ last'.added.ft >= 0)]_vars

\* a negative value was set, and a hook invocation has left it pending
C18_Witness ==
    /\ last.op = "hook"
    /\ last.set = <<-1>>
    /\ last.seen
    /\ skiptime = -1
    /\ last.branch = "orig"
    /\ last.origcalls = 1
    /\ last.added = NoneAdded

====
